---- MODULE Spec2Model ----
(***************************************************************************)
(* The chat bridge of v0-agent-panel: the POST handler of /api/chat        *)
(* (app/api/chat/route.ts), the POST handler of /api/chat/workflow and the *)
(* chat workflow it runs (app/workflows/chat-workflow.ts).                 *)
(*                                                                         *)
(* JavaScript runs a handler without interruption between two awaits, so   *)
(* one action is one such run: from the resolution of `await req.json()`   *)
(* to the returned Response, or one event of the provider's stream.        *)
(***************************************************************************)
EXTENDS Integers, Sequences, FiniteSets, TLC

\* ------------------------------------------------------------------ bounds
\* The most chunks the provider streams emit in one run of the model.
MaxChunks == 2

\* The most commands submitted to the terminal in one run of the model.
MaxCommands == 2

\* ------------------------------------------------------- requests, inputs
Requests == {"r1", "r2"}

Routes == {"/api/chat", "/api/chat/workflow"}

\* An environment variable that is not set reads as undefined.
Unset == "<undefined>"

VercelEnvs == {"production", "preview"}
ApiKeys    == {Unset, "sk-ant-key"}
NodeEnvs   == {"development", "production"}

Envs == [VERCEL_ENV : VercelEnvs, ANTHROPIC_API_KEY : ApiKeys, NODE_ENV : NodeEnvs]

\* JavaScript values a parsed body can hold in its `messages` field.
JsUndefined == [t |-> "undefined"]
JsString(s) == [t |-> "string", s |-> s]
JsArray(xs) == [t |-> "array", items |-> xs]

Hi    == [role |-> "user", content |-> "Hi"]
Reply == [role |-> "assistant", content |-> "Hello"]

MessagesValues ==
    { JsUndefined, JsString("hi"), JsArray(<< >>), JsArray(<<Hi, Reply>>) }

\* What `await req.json()` does with the request body: it rejects (the body
\* is no JSON), or resolves to null, or to an object.
Bodies ==
    { [kind |-> "unparseable"], [kind |-> "null"] }
        \cup { [kind |-> "object", messages |-> v] : v \in MessagesValues }

\* The text chunks and the completion signals a provider stream can carry.
Chunks == {"Hel", "lo"}

UsageOf(i, o) == [inputTokens |-> i, outputTokens |-> o, totalTokens |-> i + o]

Finishes ==
    { [finishReason |-> "stop",   usage |-> UsageOf(3, 2)],
      [finishReason |-> "length", usage |-> JsUndefined] }

NoFinish == [finishReason |-> JsUndefined, usage |-> JsUndefined]

\* ------------------------------------------------------------------ state
VARIABLES
    env,            \* process.env
    isDevelopment,  \* module constant of chat-workflow.ts, set at module load
    pc,             \* where each request's handler stands
    route,          \* the endpoint the request was POSTed to
    body,           \* the request body
    seen,           \* what the selector read for the request
    model,          \* `let model`
    prompt,         \* the messages handed to streamText
    genCalls,       \* streamText calls started for the request
    emitted,        \* chunks the provider stream has emitted
    text,           \* the text streamText has accumulated (StreamResult)
    delivered,      \* parts written to the caller's response stream
    provider,       \* the provider stream: idle, open, done or error
    finish,         \* the provider's completion signal
    fullText,       \* generateResponse: `let fullText`
    consumed,       \* generateResponse: chunks the for-await loop has taken
    result,         \* generateResponse's return value
    response,       \* the Response returned to the caller
    console,        \* console.log / console.error entries of the request
    files,          \* FileBrowser: useState<FileType[]>
    showFileBrowser,\* Terminal: useState(false)
    splitView,      \* Terminal: useState(false)
    rendered,       \* the flags as of Terminal's last render, closed over by its handlers
    wantSplit,      \* history: splitView had every split event flipped it once
    wantFiles,      \* history: showFileBrowser had every toggle flipped it once
    commands,       \* Terminal: useState<CommandType[]>([])
    commandHistory, \* Terminal: useState<string[]>([])
    command,        \* CommandInput: useState("")
    historyIndex    \* CommandInput: useState(-1)

vars == << env, isDevelopment, pc, route, body, seen, model, prompt, genCalls,
           emitted, text, delivered, provider, finish, fullText, consumed, result,
           response, console, files, showFileBrowser, splitView, rendered,
           wantSplit, wantFiles, commands, commandHistory, command, historyIndex >>

\* The state of the terminal panel's components.
uiVars == << files, showFileBrowser, splitView, rendered, wantSplit, wantFiles,
            commands, commandHistory, command, historyIndex >>

\* The state of the request handlers.
apiVars == << env, isDevelopment, pc, route, body, seen, model, prompt, genCalls,
             emitted, text, delivered, provider, finish, fullText, consumed, result,
             response, console >>

\* ---------------------------------------------------------------- helpers
\* JavaScript truthiness of a `messages` value (route.ts line 12, `!messages`).
Truthy(v) ==
    CASE v.t = "undefined" -> FALSE
      [] v.t = "null"      -> FALSE
      [] v.t = "string"    -> v.s # ""
      [] OTHER             -> TRUE

\* Array.isArray
IsArray(v) == v.t = "array"

\* Truthiness of an environment variable's value (`isProduction && apiKey`).
TruthyEnv(s) == s # Unset /\ s # ""

RECURSIVE Concat(_)
Concat(chunks) ==
    IF chunks = << >> THEN "" ELSE Head(chunks) \o Concat(Tail(chunks))

Unsettled == [t |-> "unset"]
NoReading == [read |-> FALSE]
NoResponse == [status |-> 0, kind |-> "none"]
NoResult == [returned |-> FALSE]

JsonResponse(status, b) == [status |-> status, kind |-> "json", body |-> b]
StreamResponse == [status |-> 200, kind |-> "stream"]

\* The Error objects the handlers can catch.
SyntaxError == [name |-> "SyntaxError", message |-> "Unexpected token in JSON"]
TypeError   == [name |-> "TypeError", message |-> "Cannot destructure property 'messages' of null"]
CliError    == [name |-> "Error", message |-> "Claude Code CLI is not authenticated"]

\* What a request learnt about the local CLI provider: nothing when it did
\* not call claudeCode(...), else whether the call returned or threw.
CliReading(called, cliOk) ==
    IF ~called THEN "not called" ELSE IF cliOk THEN "constructed" ELSE "threw"

\* ------------------------------------------------- /api/chat: validation
\* route.ts line 12 (and line 106): the request passes when the test
\* `!messages || !Array.isArray(messages)` is false.
ValidMessages(messages) == Truthy(messages) /\ IsArray(messages)

InvalidRequestResponse ==
    JsonResponse(400, [error |-> "Invalid request", details |-> "Messages array is required"])

\* A handler that puts a system message before the caller's messages.
MessagesWithSystemPrompt(messages) ==
    <<[role |-> "system", content |-> "You are a helpful assistant."]>> \o messages.items

\* route.ts lines 67-69 and lines 103-113 with chat-workflow.ts lines 42-44:
\* the `messages` of the body is the `messages` given to streamText.
MessagesHandedOn(messages) == messages.items

\* ---------------------------------------------- /api/chat: Model Selector
AnthropicModel == [provider |-> "anthropic", modelId |-> "claude-sonnet-4-5-20250929"]
ClaudeCodeModel == [provider |-> "claude-code", modelId |-> "sonnet"]

AuthenticationErrorResponse ==
    JsonResponse(500,
        [error |-> "Authentication error",
         details |-> "Please run \"claude login\" in your terminal to authenticate with Claude Code CLI."])

ConfigurationErrorResponse ==
    JsonResponse(500,
        [error |-> "Configuration error",
         details |-> "AI Agent requires authentication. Please add ANTHROPIC_API_KEY to your Vercel environment variables, or get a free API key at https://console.anthropic.com/settings/keys (works alongside your Claude Max subscription)."])

\* A selector that tests the credential before the deployment flag.
SelectModelKeyFirst(isProduction, apiKey, cliOk) ==
    IF TruthyEnv(apiKey)
    THEN [class |-> "success", model |-> AnthropicModel]
    ELSE IF ~isProduction
         THEN IF cliOk
              THEN [class |-> "success", model |-> ClaudeCodeModel]
              ELSE [class |-> "AuthenticationError", response |-> AuthenticationErrorResponse]
         ELSE [class |-> "ConfigurationError", response |-> ConfigurationErrorResponse]

\* A selector that throws its failures, so that the handler's catch answers.
SelectModelThrows(isProduction, apiKey, cliOk) ==
    IF isProduction /\ TruthyEnv(apiKey)
    THEN [class |-> "success", model |-> AnthropicModel]
    ELSE IF ~isProduction
         THEN IF cliOk
              THEN [class |-> "success", model |-> ClaudeCodeModel]
              ELSE [class |-> "AuthenticationError",
                    response |-> JsonResponse(500, [error |-> "Failed to process chat request",
                                                    details |-> CliError.message])]
         ELSE [class |-> "ConfigurationError",
               response |-> JsonResponse(500, [error |-> "Failed to process chat request",
                                               details |-> "ANTHROPIC_API_KEY is not set"])]

\* A selector that refuses the local CLI while another request streams.
SelectModelBusy(isProduction, apiKey, cliOk) ==
    IF isProduction /\ TruthyEnv(apiKey)
    THEN [class |-> "success", model |-> AnthropicModel]
    ELSE IF ~isProduction
         THEN IF cliOk /\ ~(\E q \in Requests : pc[q] = "Streaming")
              THEN [class |-> "success", model |-> ClaudeCodeModel]
              ELSE [class |-> "AuthenticationError", response |-> AuthenticationErrorResponse]
         ELSE [class |-> "ConfigurationError", response |-> ConfigurationErrorResponse]

\* route.ts lines 26-65.  cliOk: claudeCode(...) returns a model (it throws
\* otherwise).  The outcome is the handle, or the Response returned early.
SelectModel(isProduction, apiKey, cliOk) ==
    IF isProduction /\ TruthyEnv(apiKey)
    THEN [class |-> "success", model |-> AnthropicModel]
    ELSE IF ~isProduction
         THEN IF cliOk
              THEN [class |-> "success", model |-> ClaudeCodeModel]
              ELSE [class |-> "AuthenticationError", response |-> AuthenticationErrorResponse]
         ELSE [class |-> "ConfigurationError", response |-> ConfigurationErrorResponse]

\* route.ts lines 81-93: the catch of the /api/chat handler.
ChatCatchResponse(error) ==
    JsonResponse(500, [error |-> "Failed to process chat request", details |-> error.message])

ChatCatchLog(error) ==
    [level |-> "error", tag |-> "Chat API error:", data |-> error]

\* ------------------------------------------------------ the response stream
\* toDataStreamResponse (route.ts line 80) writes the stream as data-stream
\* parts: a text chunk as a text part, the completion as a finish part, a
\* provider error as an error part.
TextPart(chunk) == [type |-> "text", value |-> chunk]
FinishPart(fin) == [type |-> "finish", value |-> fin.finishReason]
ErrorPart       == [type |-> "error", value |-> "An error occurred."]

\* The bytes of one part on the wire.
Wire(part) ==
    CASE part.type = "text"   -> "0:\"" \o part.value \o "\"\n"
      [] part.type = "finish" -> "d:{\"finishReason\":\"" \o part.value \o "\"}\n"
      [] OTHER                -> "3:\"" \o part.value \o "\"\n"

RECURSIVE RawBody(_)
RawBody(parts) ==
    IF parts = << >> THEN "" ELSE Wire(Head(parts)) \o RawBody(Tail(parts))

IsTextPart(part) == part.type = "text"

\* What the caller's reader (useChat) gets back from the text parts.
RECURSIVE TextValues(_)
TextValues(parts) ==
    IF parts = << >> THEN << >>
    ELSE IF IsTextPart(Head(parts))
         THEN <<Head(parts).value>> \o TextValues(Tail(parts))
         ELSE TextValues(Tail(parts))

\* A forwarding stage that writes each chunk twice.
ForwardChunkTwice(parts, chunk) == parts \o <<TextPart(chunk), TextPart(chunk)>>

\* One chunk of the provider goes to the caller as one text part.
ForwardChunk(parts, chunk) == Append(parts, TextPart(chunk))

\* An accumulator that keeps the last chunk only.
AccumulateLast(acc, chunk) == chunk

\* An accumulator shared by all requests: a chunk is appended to whatever any
\* request has accumulated.
AccumulateShared(acc, chunk) ==
    LET longest == CHOOSE q \in Requests : \A p \in Requests : Len(text[p]) <= Len(text[q])
    IN text[longest] \o chunk

\* streamText appends each chunk to the text it hands to onFinish.
Accumulate(acc, chunk) == acc \o chunk

\* route.ts lines 70-77: onFinish({ text, finishReason, usage }).
StreamFinishedLog(t, finishReason, usage) ==
    [level |-> "log", tag |-> "Stream finished:",
     data |-> [finishReason |-> finishReason, usage |-> usage, textLength |-> Len(t)]]

\* --------------------------------------------------- the terminal panel
\* A FileItem.  `expanded` is a boolean here: the folders the source gives no
\* `expanded` (undefined, falsy) start with FALSE.
File(name) == [name |-> name, type |-> "file", expanded |-> FALSE, children |-> << >>]

Folder(name, expanded, children) ==
    [name |-> name, type |-> "folder", expanded |-> expanded, children |-> children]

\* useState's initial value in FileBrowser.
InitialFiles ==
    << Folder("project", TRUE,
         << Folder("src", TRUE,
              << Folder("components", FALSE,
                   << File("Button.tsx"), File("Card.tsx"), File("Input.tsx") >>),
                 Folder("pages", FALSE, << File("index.tsx"), File("about.tsx") >>),
                 Folder("utils", FALSE, << File("helpers.ts") >>),
                 File("app.tsx"),
                 File("index.ts") >>),
            File("package.json"),
            File("tsconfig.json"),
            File("README.md") >>) >>

\* What a render of Terminal closes its handlers over.
Closure == [splitView |-> splitView, showFileBrowser |-> showFileBrowser]

\* The panel after its first render.
UiInit ==
    /\ files = InitialFiles
    /\ showFileBrowser = FALSE
    /\ splitView = FALSE
    /\ rendered = [splitView |-> FALSE, showFileBrowser |-> FALSE]
    /\ wantSplit = FALSE
    /\ wantFiles = FALSE
    /\ commands = << >>
    /\ commandHistory = << >>
    /\ command = ""
    /\ historyIndex = -1

\* ------------------------------------------------------------------- Init
\* No request has arrived.  The module constant of chat-workflow.ts line 4 is
\* computed from the environment the module was loaded in.
Init ==
    /\ env \in Envs
    /\ isDevelopment = (env.NODE_ENV = "development")
    /\ pc = [r \in Requests |-> "Idle"]
    /\ route = [r \in Requests |-> "/api/chat"]
    /\ body = [r \in Requests |-> [kind |-> "none"]]
    /\ seen = [r \in Requests |-> NoReading]
    /\ model = [r \in Requests |-> Unsettled]
    /\ prompt = [r \in Requests |-> << >>]
    /\ genCalls = [r \in Requests |-> 0]
    /\ emitted = [r \in Requests |-> << >>]
    /\ text = [r \in Requests |-> ""]
    /\ delivered = [r \in Requests |-> << >>]
    /\ provider = [r \in Requests |-> "idle"]
    /\ finish = [r \in Requests |-> NoFinish]
    /\ fullText = [r \in Requests |-> ""]
    /\ consumed = [r \in Requests |-> 0]
    /\ result = [r \in Requests |-> NoResult]
    /\ response = [r \in Requests |-> NoResponse]
    /\ console = [r \in Requests |-> << >>]
    /\ UiInit

\* ---------------------------------------------------------------- actions
\* The chunks the provider streams of all requests have emitted so far; runs
\* are cut off at MaxChunks of them.
RECURSIVE EmittedBy(_)
EmittedBy(rs) ==
    IF rs = {} THEN 0
    ELSE LET r == CHOOSE x \in rs : TRUE
         IN Len(emitted[r]) + EmittedBy(rs \ {r})

ChunksEmitted == EmittedBy(Requests)

\* A caller POSTs a body to one of the two endpoints; the handler starts and
\* suspends at `await req.json()`.
Receive(r) ==
    /\ pc[r] = "Idle"
    /\ \E rt \in Routes, b \in Bodies :
          /\ route' = [route EXCEPT ![r] = rt]
          /\ body' = [body EXCEPT ![r] = b]
    /\ pc' = [pc EXCEPT ![r] = "Received"]
    /\ UNCHANGED uiVars
    /\ UNCHANGED << env, isDevelopment, consumed, seen, model, prompt, genCalls, emitted, text,
                    delivered, provider, finish, fullText, result, response, console >>

\* The error `const { messages } = await req.json()` throws for a body.
ParseError(b) == IF b.kind = "unparseable" THEN SyntaxError ELSE TypeError

Parses(b) == b.kind = "object"

\* route.ts lines 7-94, from the resolution of req.json() to the returned
\* Response: the catch, the validation, the Model Selector, streamText.
ChatPOST(r) ==
    /\ pc[r] = "Received"
    /\ route[r] = "/api/chat"
    /\ LET b == body[r] IN
       IF ~Parses(b)
       THEN /\ console' = [console EXCEPT ![r] = Append(@, ChatCatchLog(ParseError(b)))]
            /\ response' = [response EXCEPT ![r] = ChatCatchResponse(ParseError(b))]
            /\ pc' = [pc EXCEPT ![r] = "Failed"]
            /\ UNCHANGED << seen, model, prompt, genCalls, provider >>
       ELSE IF ~ValidMessages(b.messages)
       THEN /\ response' = [response EXCEPT ![r] = InvalidRequestResponse]
            /\ pc' = [pc EXCEPT ![r] = "Rejected400"]
            /\ UNCHANGED << seen, model, prompt, genCalls, provider, console >>
       ELSE \E cliOk \in BOOLEAN :
            LET isProduction == env.VERCEL_ENV = "production"
                apiKey == env.ANTHROPIC_API_KEY
                sel == SelectModel(isProduction, apiKey, cliOk)
            IN /\ seen' = [seen EXCEPT ![r] =
                              [read |-> TRUE, isProduction |-> isProduction,
                               apiKey |-> apiKey, cli |-> CliReading(~isProduction, cliOk),
                               class |-> sel.class]]
               /\ IF sel.class = "success"
                  THEN /\ model' = [model EXCEPT ![r] = sel.model]
                       /\ prompt' = [prompt EXCEPT ![r] = MessagesHandedOn(b.messages)]
                       /\ genCalls' = [genCalls EXCEPT ![r] = @ + 1]
                       /\ provider' = [provider EXCEPT ![r] = "open"]
                       /\ response' = [response EXCEPT ![r] = StreamResponse]
                       /\ pc' = [pc EXCEPT ![r] = "Streaming"]
                  ELSE /\ response' = [response EXCEPT ![r] = sel.response]
                       /\ pc' = [pc EXCEPT ![r] = "Rejected500"]
                       /\ UNCHANGED << model, prompt, genCalls, provider >>
               /\ UNCHANGED console
    /\ UNCHANGED uiVars
    /\ UNCHANGED << env, isDevelopment, consumed, route, body, emitted, text, delivered, finish,
                    fullText, result >>

\* The provider emits a chunk: streamText adds it to its text, and the
\* response stream carries it to the caller.
ProviderChunk(r) ==
    /\ pc[r] = "Streaming"
    /\ ChunksEmitted < MaxChunks
    /\ \E c \in Chunks :
          /\ emitted' = [emitted EXCEPT ![r] = Append(@, c)]
          /\ text' = [text EXCEPT ![r] = Accumulate(@, c)]
          /\ delivered' = [delivered EXCEPT ![r] = ForwardChunk(@, c)]
    /\ UNCHANGED uiVars
    /\ UNCHANGED << env, isDevelopment, consumed, pc, route, body, seen, model, prompt, genCalls,
                    provider, finish, fullText, result, response, console >>

\* The provider signals completion: the stream ends with the finish part.
ProviderDone(r) ==
    /\ pc[r] = "Streaming"
    /\ \E fin \in Finishes :
          /\ finish' = [finish EXCEPT ![r] = fin]
          /\ delivered' = [delivered EXCEPT ![r] = Append(@, FinishPart(fin))]
    /\ provider' = [provider EXCEPT ![r] = "done"]
    /\ pc' = [pc EXCEPT ![r] = "Completed"]
    /\ UNCHANGED uiVars
    /\ UNCHANGED << env, isDevelopment, consumed, route, body, seen, model, prompt, genCalls,
                    emitted, text, fullText, result, response, console >>

\* route.ts lines 70-77: streamText calls onFinish with the completed result.
OnFinish(r) ==
    /\ pc[r] = "Completed"
    /\ console' = [console EXCEPT ![r] =
                      Append(@, StreamFinishedLog(text[r], finish[r].finishReason, finish[r].usage))]
    /\ pc' = [pc EXCEPT ![r] = "Done"]
    /\ UNCHANGED uiVars
    /\ UNCHANGED << env, isDevelopment, consumed, route, body, seen, model, prompt, genCalls,
                    emitted, text, delivered, provider, finish, fullText, result, response >>

\* A handler whose catch answers the provider's error with a second Response.
ProviderErrorAnswered(r) ==
    /\ pc[r] = "Streaming"
    /\ provider' = [provider EXCEPT ![r] = "error"]
    /\ response' = [response EXCEPT ![r] = ChatCatchResponse(TypeError)]
    /\ pc' = [pc EXCEPT ![r] = "Failed"]
    /\ UNCHANGED uiVars
    /\ UNCHANGED << env, isDevelopment, consumed, route, body, seen, model, prompt, genCalls,
                    emitted, text, delivered, finish, fullText, result, console >>

\* The provider raises an error while the response streams.  The handler has
\* returned (route.ts line 80), so its catch (lines 81-93) is not on the stack;
\* streamText was given no error callback (lines 67-78).  The stream carries
\* an error part and closes; onFinish is not called.
ProviderError(r) ==
    /\ pc[r] = "Streaming"
    /\ provider' = [provider EXCEPT ![r] = "error"]
    /\ delivered' = [delivered EXCEPT ![r] = Append(@, ErrorPart)]
    /\ pc' = [pc EXCEPT ![r] = "Failed"]
    /\ UNCHANGED uiVars
    /\ UNCHANGED << env, isDevelopment, consumed, route, body, seen, model, prompt, genCalls,
                    emitted, text, finish, fullText, result, response, console >>

\* ------------------------------------------------------ /api/chat/workflow
\* route.ts lines 106-111.
InvalidMessagesResponse == JsonResponse(400, [error |-> "Invalid messages format"])

\* route.ts lines 119-125: the catch of the workflow route.
WorkflowCatchResponse(error) ==
    JsonResponse(500, [error |-> "Internal server error", details |-> error.message])

WorkflowCatchLog(error) ==
    [level |-> "error", tag |-> "[Workflow API] Error:", data |-> error]

\* chat-workflow.ts lines 9-20: the model chatWorkflow builds; claudeCode's
\* exception is not caught there.
WorkflowModel(isDev, cliOk) ==
    IF isDev
    THEN IF cliOk
         THEN [class |-> "success", model |-> ClaudeCodeModel]
         ELSE [class |-> "throws", error |-> CliError]
    ELSE [class |-> "success", model |-> AnthropicModel]

\* chat-workflow.ts lines 63-70.
ResponseGeneratedLog(res) ==
    [level |-> "log", tag |-> "[Workflow] Response generated:",
     data |-> [textLength |-> Len(res.text), finishReason |-> res.finishReason,
               usage |-> res.usage]]

\* chat-workflow.ts lines 25-32 and route.ts lines 115-118.
WorkflowResponse(res) ==
    JsonResponse(200,
        [response |-> res.text,
         metadata |-> [finishReason |-> res.finishReason, usage |-> res.usage]])

\* route.ts lines 101-126 from the resolution of req.json(), into
\* chatWorkflow (chat-workflow.ts lines 6-22) up to the streamText call of
\* generateResponse (lines 38-50).
WorkflowPOST(r) ==
    /\ pc[r] = "Received"
    /\ route[r] = "/api/chat/workflow"
    /\ LET b == body[r] IN
       IF ~Parses(b)
       THEN /\ console' = [console EXCEPT ![r] = Append(@, WorkflowCatchLog(ParseError(b)))]
            /\ response' = [response EXCEPT ![r] = WorkflowCatchResponse(ParseError(b))]
            /\ pc' = [pc EXCEPT ![r] = "Failed"]
            /\ UNCHANGED << seen, model, prompt, genCalls, provider >>
       ELSE IF ~ValidMessages(b.messages)
       THEN /\ response' = [response EXCEPT ![r] = InvalidMessagesResponse]
            /\ pc' = [pc EXCEPT ![r] = "Rejected400"]
            /\ UNCHANGED << seen, model, prompt, genCalls, provider, console >>
       ELSE \E cliOk \in BOOLEAN :
            LET sel == WorkflowModel(isDevelopment, cliOk)
            IN /\ seen' = [seen EXCEPT ![r] =
                              [read |-> TRUE, isDevelopment |-> isDevelopment,
                               cli |-> CliReading(isDevelopment, cliOk),
                               class |-> sel.class]]
               /\ IF sel.class = "success"
                  THEN /\ model' = [model EXCEPT ![r] = sel.model]
                       /\ prompt' = [prompt EXCEPT ![r] = MessagesHandedOn(b.messages)]
                       /\ genCalls' = [genCalls EXCEPT ![r] = @ + 1]
                       /\ provider' = [provider EXCEPT ![r] = "open"]
                       /\ pc' = [pc EXCEPT ![r] = "Generating"]
                       /\ UNCHANGED << response, console >>
                  ELSE /\ console' = [console EXCEPT ![r] = Append(@, WorkflowCatchLog(sel.error))]
                       /\ response' = [response EXCEPT ![r] = WorkflowCatchResponse(sel.error)]
                       /\ pc' = [pc EXCEPT ![r] = "Failed"]
                       /\ UNCHANGED << model, prompt, genCalls, provider >>
    /\ UNCHANGED uiVars
    /\ UNCHANGED << env, isDevelopment, consumed, route, body, emitted, text, delivered, finish,
                    fullText, result >>

\* The provider emits a chunk: streamText adds it to its own text and queues
\* it on stream.textStream (chat-workflow.ts lines 41-50).
GenerateChunk(r) ==
    /\ pc[r] = "Generating"
    /\ provider[r] = "open"
    /\ ChunksEmitted < MaxChunks
    /\ \E c \in Chunks :
          /\ emitted' = [emitted EXCEPT ![r] = Append(@, c)]
          /\ text' = [text EXCEPT ![r] = Accumulate(@, c)]
    /\ UNCHANGED uiVars
    /\ UNCHANGED << env, isDevelopment, consumed, pc, route, body, seen, model, prompt,
                    genCalls, delivered, provider, finish, fullText, result, response,
                    console >>

\* chat-workflow.ts lines 52-54: one turn of `for await (const chunk of
\* stream.textStream) { fullText += chunk }`, taking the oldest queued chunk.
ConsumeChunk(r) ==
    /\ pc[r] = "Generating"
    /\ consumed[r] < Len(emitted[r])
    /\ fullText' = [fullText EXCEPT ![r] = @ \o emitted[r][consumed[r] + 1]]
    /\ consumed' = [consumed EXCEPT ![r] = @ + 1]
    /\ UNCHANGED uiVars
    /\ UNCHANGED << env, isDevelopment, pc, route, body, seen, model, prompt, genCalls,
                    emitted, text, delivered, provider, finish, result, response, console >>

\* The provider signals completion and streamText calls onFinish
\* (chat-workflow.ts lines 45-49): `fullText = text; finishReason = reason;
\* usage = usageData`.  Nothing orders the callback against the loop's turns:
\* chunks already queued on textStream may still be waiting for the loop.
GenerateDone(r) ==
    /\ pc[r] = "Generating"
    /\ provider[r] = "open"
    /\ \E fin \in Finishes : finish' = [finish EXCEPT ![r] = fin]
    /\ fullText' = [fullText EXCEPT ![r] = text[r]]
    /\ provider' = [provider EXCEPT ![r] = "done"]
    /\ UNCHANGED uiVars
    /\ UNCHANGED << env, isDevelopment, consumed, pc, route, body, seen, model, prompt,
                    genCalls, emitted, text, delivered, result, response, console >>

\* A step runtime that runs generateResponse again when the provider fails.
GenerateErrorRetry(r) ==
    /\ pc[r] = "Generating"
    /\ provider[r] = "open"
    /\ genCalls[r] < 3
    /\ genCalls' = [genCalls EXCEPT ![r] = @ + 1]
    /\ emitted' = [emitted EXCEPT ![r] = << >>]
    /\ text' = [text EXCEPT ![r] = ""]
    /\ fullText' = [fullText EXCEPT ![r] = ""]
    /\ consumed' = [consumed EXCEPT ![r] = 0]
    /\ UNCHANGED uiVars
    /\ UNCHANGED << env, isDevelopment, pc, route, body, seen, model, prompt, delivered,
                    provider, finish, result, response, console >>

\* The provider raises an error: textStream ends without throwing and
\* onFinish is not called (VERIFICATION-REPORT.md lines 54-69).
GenerateError(r) ==
    /\ pc[r] = "Generating"
    /\ provider[r] = "open"
    /\ provider' = [provider EXCEPT ![r] = "error"]
    /\ UNCHANGED uiVars
    /\ UNCHANGED << env, isDevelopment, consumed, pc, route, body, seen, model, prompt,
                    genCalls, emitted, text, delivered, finish, fullText, result,
                    response, console >>

\* chat-workflow.ts lines 56-60: textStream is exhausted, the loop ends and
\* generateResponse returns `{ text: fullText, finishReason, usage }`.
GenerateReturn(r) ==
    /\ pc[r] = "Generating"
    /\ provider[r] \in {"done", "error"}
    /\ consumed[r] = Len(emitted[r])
    /\ result' = [result EXCEPT ![r] =
                     [returned |-> TRUE, text |-> fullText[r],
                      finishReason |-> finish[r].finishReason,
                      usage |-> finish[r].usage]]
    /\ pc' = [pc EXCEPT ![r] = "Generated"]
    /\ UNCHANGED uiVars
    /\ UNCHANGED << env, isDevelopment, consumed, route, body, seen, model, prompt,
                    genCalls, emitted, text, delivered, provider, finish, fullText,
                    response, console >>

\* A workflow whose step runtime runs logMetrics a second time.
LogMetricsTwice(r) ==
    /\ pc[r] = "Generated"
    /\ console' = [console EXCEPT ![r] =
                      @ \o <<ResponseGeneratedLog(result[r]), ResponseGeneratedLog(result[r])>>]
    /\ pc' = [pc EXCEPT ![r] = "Logged"]
    /\ UNCHANGED uiVars
    /\ UNCHANGED << env, isDevelopment, consumed, route, body, seen, model, prompt, genCalls,
                    emitted, text, delivered, provider, finish, fullText, result, response >>

\* chat-workflow.ts line 23 and lines 63-70: `await logMetrics(result)`.
LogMetrics(r) ==
    /\ pc[r] = "Generated"
    /\ console' = [console EXCEPT ![r] = Append(@, ResponseGeneratedLog(result[r]))]
    /\ pc' = [pc EXCEPT ![r] = "Logged"]
    /\ UNCHANGED uiVars
    /\ UNCHANGED << env, isDevelopment, consumed, route, body, seen, model, prompt, genCalls,
                    emitted, text, delivered, provider, finish, fullText, result, response >>

\* chat-workflow.ts lines 25-32 and route.ts lines 115-118: the workflow
\* returns and the route answers.
WorkflowReturn(r) ==
    /\ pc[r] = "Logged"
    /\ response' = [response EXCEPT ![r] = WorkflowResponse(result[r])]
    /\ pc' = [pc EXCEPT ![r] = "Done"]
    /\ UNCHANGED uiVars
    /\ UNCHANGED << env, isDevelopment, consumed, route, body, seen, model, prompt, genCalls,
                    emitted, text, delivered, provider, finish, fullText, result, console >>

\* ------------------------------------------------------------ specification
Next ==
    \E r \in Requests :
        \/ Receive(r)
        \/ ChatPOST(r)
        \/ ProviderChunk(r)
        \/ ProviderDone(r)
        \/ OnFinish(r)
        \/ ProviderError(r)
        \/ WorkflowPOST(r)
        \/ GenerateChunk(r)
        \/ ConsumeChunk(r)
        \/ GenerateDone(r)
        \/ GenerateError(r)
        \/ GenerateReturn(r)
        \/ LogMetrics(r)
        \/ WorkflowReturn(r)

Spec == Init /\ [][Next]_vars

\* ------------------------------------------------------------ properties
Handled(r) == pc[r] \notin {"Idle", "Received"}

OnChat(r) == route[r] = "/api/chat"

OnWorkflow(r) == route[r] = "/api/chat/workflow"

\* s has sub as a substring.
Contains(s, sub) ==
    \E i \in 1..(Len(s) - Len(sub) + 1) : SubSeq(s, i, i + Len(sub) - 1) = sub

\* `messages` is missing, is an empty array, or is not an array.
MessagesMissingEmptyOrNotArray(b) ==
    /\ b.kind = "object"
    /\ \/ b.messages.t = "undefined"
       \/ ~IsArray(b.messages)
       \/ IsArray(b.messages) /\ b.messages.items = << >>

\* C1: every handled request whose `messages` is missing, an empty array or
\* not an array was answered 400, without a model having been selected and
\* without a generation call having been started.
C1_InvalidMessagesRejected ==
    \A r \in Requests :
        (Handled(r) /\ MessagesMissingEmptyOrNotArray(body[r]))
            => /\ response[r].status = 400
               /\ model[r] = Unsettled
               /\ genCalls[r] = 0

\* The selector has run for request r of /api/chat.
Selected(r) == OnChat(r) /\ seen[r].read

CredentialPresent(r) == TruthyEnv(seen[r].apiKey)

\* C2: the /api/chat selector is a total decision over (isProduction,
\* credential present): production with a credential gives the hosted-API
\* handle with the fixed model id; non-production gives the local CLI handle
\* whatever the credential, or an AuthenticationError exactly when claudeCode
\* threw; production without a credential gives a ConfigurationError; there
\* is no other outcome, and generation never starts with the model unset.
C2_SelectorTotalDecision ==
    \A r \in Requests :
        /\ Selected(r) =>
              /\ seen[r].class \in {"success", "AuthenticationError", "ConfigurationError"}
              /\ (seen[r].isProduction /\ CredentialPresent(r)) =>
                     /\ seen[r].class = "success"
                     /\ model[r] = [provider |-> "anthropic",
                                    modelId |-> "claude-sonnet-4-5-20250929"]
              /\ ~seen[r].isProduction =>
                     \/ /\ seen[r].class = "success"
                        /\ seen[r].cli = "constructed"
                        /\ model[r] = [provider |-> "claude-code", modelId |-> "sonnet"]
                     \/ /\ seen[r].class = "AuthenticationError"
                        /\ seen[r].cli = "threw"
                        /\ model[r] = Unsettled
              /\ (seen[r].isProduction /\ ~CredentialPresent(r)) =>
                     /\ seen[r].class = "ConfigurationError"
                     /\ model[r] = Unsettled
        /\ (OnChat(r) /\ genCalls[r] > 0) => (Selected(r) /\ model[r] # Unsettled)

\* Two requests of /api/chat in non-production with a credential set: one got
\* the local CLI handle and streams, the other got the AuthenticationError.
C2_Witness ==
    \E r1, r2 \in Requests :
        /\ Selected(r1) /\ Selected(r2)
        /\ ~seen[r1].isProduction /\ CredentialPresent(r1)
        /\ seen[r1].class = "success" /\ pc[r1] = "Streaming"
        /\ seen[r2].class = "AuthenticationError"

\* C3: a selector failure ends the request: a ConfigurationError answers 500
\* "Configuration error" with details naming ANTHROPIC_API_KEY, an
\* AuthenticationError answers 500 "Authentication error" with details naming
\* `claude login`; no generation call was started, nothing was streamed or
\* logged, and the answer is not the one of the handler's catch.
C3_SelectorFailuresTerminal ==
    \A r \in Requests :
        (Selected(r) /\ seen[r].class # "success") =>
            /\ pc[r] = "Rejected500"
            /\ response[r].kind = "json"
            /\ response[r].status = 500
            /\ seen[r].class = "ConfigurationError" =>
                   /\ response[r].body.error = "Configuration error"
                   /\ Contains(response[r].body.details, "ANTHROPIC_API_KEY")
            /\ seen[r].class = "AuthenticationError" =>
                   /\ response[r].body.error = "Authentication error"
                   /\ Contains(response[r].body.details, "claude login")
            /\ response[r].body.error # "Failed to process chat request"
            /\ genCalls[r] = 0
            /\ provider[r] = "idle"
            /\ delivered[r] = << >>
            /\ console[r] = << >>

\* A production request without a credential was answered (Scenario B).
C3_Witness ==
    \E r \in Requests :
        /\ Selected(r)
        /\ seen[r].isProduction /\ ~CredentialPresent(r)
        /\ seen[r].class = "ConfigurationError"
        /\ response[r].status = 500

IsTelemetry(entry) == entry.tag = "Stream finished:"

Telemetry(r) == SelectSeq(console[r], IsTelemetry)

\* C5: a request of /api/chat has no telemetry record before onFinish has
\* run and exactly one after, never two; once the provider has signalled
\* completion onFinish is due (the request cannot end without it); the
\* record's textLength is the length of the text streamed to the caller, and
\* it carries the provider's finishReason and usage.
C5_TelemetryExactlyOnce ==
    \A r \in Requests :
        OnChat(r) =>
            /\ Len(Telemetry(r)) <= 1
            /\ pc[r] # "Done" => Telemetry(r) = << >>
            /\ provider[r] = "done" => (pc[r] = "Done" \/ ENABLED OnFinish(r))
            /\ pc[r] = "Done" =>
                   /\ provider[r] = "done"
                   /\ Len(Telemetry(r)) = 1
                   /\ Telemetry(r)[1].data.textLength = Len(Concat(TextValues(delivered[r])))
                   /\ Telemetry(r)[1].data.finishReason = finish[r].finishReason
                   /\ Telemetry(r)[1].data.usage = finish[r].usage

\* A request completed after two chunks and its record reports 5 characters.
C5_Witness ==
    \E r \in Requests :
        /\ OnChat(r)
        /\ pc[r] = "Done"
        /\ Len(emitted[r]) = 2
        /\ Len(Telemetry(r)) = 1
        /\ Telemetry(r)[1].data.textLength = 5
        /\ Telemetry(r)[1].data.finishReason = "stop"

IsFailureLog(entry) == entry.level = "error"

\* C6: when the provider has raised an error after at least one chunk, the
\* caller has received no chunk beyond those emitted before the error, there
\* is no "Stream finished" record, and the console holds a failure entry for
\* the request.
C6_MidStreamFailureRecorded ==
    \A r \in Requests :
        (OnChat(r) /\ prompt[r] # << >> /\ provider[r] = "error" /\ Len(emitted[r]) >= 1) =>
            /\ TextValues(delivered[r]) = emitted[r]
            /\ Telemetry(r) = << >>
            /\ SelectSeq(console[r], IsFailureLog) # << >>

Terminal(r) == pc[r] \in {"Rejected400", "Rejected500", "Failed", "Done"}

\* One of the four failure kinds happened to request r.
FailureOf(r) ==
    IF ~Handled(r) THEN "none"
    ELSE IF Parses(body[r]) /\ ~ValidMessages(body[r].messages) THEN "InvalidRequestError"
    ELSE IF seen[r].read /\ seen[r].class = "AuthenticationError" THEN "AuthenticationError"
    ELSE IF seen[r].read /\ seen[r].class = "ConfigurationError" THEN "ConfigurationError"
    ELSE IF seen[r].read /\ seen[r].class = "throws" THEN "AuthenticationError"
    ELSE IF provider[r] = "error" THEN "ProviderError"
    ELSE "none"

IsErrorEnvelope(resp) ==
    /\ resp.kind = "json"
    /\ resp.status >= 400
    /\ "error" \in DOMAIN resp.body
    /\ "details" \in DOMAIN resp.body

\* C7: every request that ended with one of the four failure kinds, on
\* either endpoint, was answered with a JSON error envelope that has both an
\* `error` and a `details` string.
C7_EveryFailureEnveloped ==
    \A r \in Requests :
        (Terminal(r) /\ FailureOf(r) # "none") => IsErrorEnvelope(response[r])

OutcomeClass(r) == seen[r].class

\* C8 as stated: two requests of /api/chat that read the same (isProduction,
\* credential present) pair got the same outcome class.
C8_ClassFromPairOnly ==
    \A r1, r2 \in Requests :
        ( /\ Selected(r1) /\ Selected(r2)
          /\ seen[r1].isProduction = seen[r2].isProduction
          /\ CredentialPresent(r1) = CredentialPresent(r2) )
            => OutcomeClass(r1) = OutcomeClass(r2)

\* C8 (amended): the outcome class is a function of (isProduction,
\* credential present) and of whether claudeCode(...) returned or threw: in
\* production the pair alone decides; two requests that read the same pair
\* and saw the same fate of the local provider got the same class.
C8_ClassFromPairAndCli ==
    \A r1, r2 \in Requests :
        /\ ( /\ Selected(r1) /\ Selected(r2)
             /\ seen[r1].isProduction = seen[r2].isProduction
             /\ CredentialPresent(r1) = CredentialPresent(r2)
             /\ seen[r1].cli = seen[r2].cli )
               => OutcomeClass(r1) = OutcomeClass(r2)
        /\ ( /\ Selected(r1) /\ Selected(r2)
             /\ seen[r1].isProduction /\ seen[r2].isProduction
             /\ CredentialPresent(r1) = CredentialPresent(r2) )
               => OutcomeClass(r1) = OutcomeClass(r2)

\* Two non-production requests whose claudeCode(...) both returned; one has
\* streamed a chunk already, the other none yet.
C8_Witness ==
    \E r1, r2 \in Requests :
        /\ r1 # r2
        /\ Selected(r1) /\ Selected(r2)
        /\ ~seen[r1].isProduction /\ ~seen[r2].isProduction
        /\ seen[r1].cli = "constructed" /\ seen[r2].cli = "constructed"
        /\ OutcomeClass(r1) = "success" /\ OutcomeClass(r2) = "success"
        /\ emitted[r1] # << >> /\ emitted[r2] = << >>

Reading(r) == IF seen[r].read THEN [seen[r] EXCEPT !.class = "-"] ELSE seen[r]

\* What a request owns: its endpoint, body, environment reading and provider
\* stream, where its handler stands, and how far its own loop and onFinish
\* callback have got with the accumulator (their order is its own schedule).
Own(r) ==
    << route[r], body[r], Reading(r), emitted[r], provider[r], finish[r], pc[r],
       consumed[r], fullText[r] >>

\* What the handler produced for it.
Produced(r) ==
    << IF seen[r].read THEN seen[r].class ELSE "-",
       model[r], prompt[r], genCalls[r], text[r], delivered[r], result[r],
       response[r], console[r] >>

EnvChange ==
    /\ \E e \in Envs : e # env /\ env' = e
    /\ UNCHANGED uiVars
    /\ UNCHANGED << isDevelopment, consumed, pc, route, body, seen, model, prompt,
                    genCalls, emitted, text, delivered, provider, finish, fullText,
                    result, response, console >>

\* The two handlers up to their selection, with the environment changing
\* before, between and after the requests.
NextEnv ==
    \/ EnvChange
    \/ \E r \in Requests :
          \/ Receive(r)
          \/ ChatPOST(r)
          \/ WorkflowPOST(r)

SpecEnv == Init /\ [][NextEnv]_vars

\* C11: on both endpoints the handler step that selects the model decides on
\* the environment as it is at that moment: /api/chat on VERCEL_ENV and
\* ANTHROPIC_API_KEY, the workflow on NODE_ENV; nothing decided at module
\* load is reused.
C11_EnvReadPerRequest ==
    [][\A r \in Requests :
          (pc[r] = "Received" /\ seen'[r].read) =>
              IF route[r] = "/api/chat"
              THEN /\ seen'[r].isProduction = (env.VERCEL_ENV = "production")
                   /\ seen'[r].apiKey = env.ANTHROPIC_API_KEY
              ELSE seen'[r].isDevelopment = (env.NODE_ENV = "development")]_vars

\* --------------------------------------------------- conversation handed on
\* C12: whenever a generation call has been started for a request, the
\* conversation handed to it is non-empty and every message in it has
\* non-empty content; a request without such a conversation has had no call.
C12_ConversationNonEmpty ==
    \A r \in Requests :
        genCalls[r] > 0 =>
            /\ prompt[r] # << >>
            /\ \A i \in 1..Len(prompt[r]) : prompt[r][i].content # ""

\* ------------------------------------------------ workflow: returned text
\* C13: whatever the order of the onFinish callback and the turns of the
\* chunk-consuming loop, the text generateResponse returned is the
\* concatenation of the provider's chunks, each counted once.
C13_ReturnedTextOnce ==
    \A r \in Requests :
        (OnWorkflow(r) /\ prompt[r] # << >> /\ result[r].returned)
            => result[r].text = Concat(emitted[r])

\* ------------------------------------------- workflow: selection logic
\* The provider of the handle a request's selection ended with; "none" when
\* the selection ended in a failure.
SelectedProvider(r) ==
    IF seen[r].class = "success" THEN model[r].provider ELSE "none"

\* C14: under one environment, a request of /api/chat and a request of the
\* workflow with the same non-empty conversation whose selections have been made (and for which claudeCode(...),
\* where called, did not throw) reached the same outcome: the same provider,
\* or both a failure.
C14_SameSelectionLogic ==
    \A r1, r2 \in Requests :
        ( /\ OnChat(r1) /\ seen[r1].read /\ seen[r1].cli # "threw"
          /\ OnWorkflow(r2) /\ seen[r2].read /\ seen[r2].cli # "threw"
          /\ body[r1] = body[r2] /\ body[r1].messages.items # << >> )
            => SelectedProvider(r1) = SelectedProvider(r2)

\* ------------------------------------------------------- order of the steps
\* Where request r of /api/chat stands agrees with the order validate, select,
\* start generation, forward chunks, emit telemetry.
C18_InOrder(r) ==
    OnChat(r) =>
        /\ genCalls[r] > 0 =>
               /\ body[r].kind = "object" /\ body[r].messages.t = "array"
               /\ seen[r].read /\ seen[r].class = "success"
               /\ model[r] # Unsettled
        /\ (emitted[r] # << >> \/ delivered[r] # << >>) => genCalls[r] = 1
        /\ Telemetry(r) # << >> =>
               /\ provider[r] = "done"
               /\ TextValues(delivered[r]) = emitted[r]
        /\ pc[r] = "Rejected400" => (~seen[r].read /\ genCalls[r] = 0 /\ response[r].status = 400)
        /\ pc[r] = "Rejected500" => (seen[r].read /\ genCalls[r] = 0 /\ response[r].status = 500)
        /\ pc[r] = "Done" => (genCalls[r] = 1 /\ response[r] = StreamResponse)
        /\ Terminal(r) => response[r] # NoResponse
        /\ (Handled(r) /\ ~Terminal(r)) => response[r] = StreamResponse

\* C18: a request of /api/chat goes through validate, select model, start
\* generation, forward chunks, emit telemetry in that order; the provider is
\* not invoked before validation and selection succeeded; a terminal outcome
\* (Rejected400, Rejected500, Failed, Done) is never left for another, and
\* the Response, once returned, is never replaced by a second one.
C18_OrderedSingleOutcome ==
    [][\A r \in Requests :
          /\ C18_InOrder(r)
          /\ C18_InOrder(r)'
          /\ Terminal(r) => pc'[r] = pc[r]
          /\ response[r] # NoResponse => response'[r] = response[r]]_vars

\* One request of /api/chat ended Done after two chunks with its telemetry
\* record, another ended Failed after the stream had been returned.
C18_Witness ==
    \E r1, r2 \in Requests :
        /\ OnChat(r1) /\ pc[r1] = "Done" /\ emitted[r1] # << >> /\ Len(Telemetry(r1)) = 1
        /\ OnChat(r2) /\ pc[r2] = "Failed" /\ response[r2] = StreamResponse

\* ------------------------------------------------------- unparseable bodies
\* C19: every handled request of /api/chat whose body was no JSON, or was
\* JSON null, was answered with the 400 "Invalid request" envelope, without a
\* generation call.
C19_UnparseableAnswered400 ==
    \A r \in Requests :
        (OnChat(r) /\ Handled(r) /\ ~Parses(body[r]))
            => /\ response[r] = InvalidRequestResponse
               /\ genCalls[r] = 0

\* ------------------------------------------------ telemetry and the response
\* C20: the response never waits for telemetry.  On /api/chat the finish part
\* is with the caller as soon as the provider has completed; on the workflow
\* route, once generateResponse has returned, the response has been returned
\* or can be returned as the next step, whether or not logMetrics has run.
C20_ResponseNeverWaits ==
    \A r \in Requests :
        /\ (OnChat(r) /\ provider[r] = "done") =>
               /\ response[r] = StreamResponse
               /\ delivered[r] # << >>
               /\ delivered[r][Len(delivered[r])].type = "finish"
        /\ (OnWorkflow(r) /\ prompt[r] # << >> /\ result[r].returned) =>
               (response[r] # NoResponse \/ ENABLED WorkflowReturn(r))

\* ------------------------------------------------------------ the Chat UI
\* JSON.stringify of the characters of a string: a double quote is written
\* with a backslash before it.
RECURSIVE JsonEscape(_)
JsonEscape(s) ==
    IF s = "" THEN ""
    ELSE LET c == SubSeq(s, 1, 1)
         IN (IF c = "\"" THEN "\\\"" ELSE c) \o JsonEscape(SubSeq(s, 2, Len(s)))

\* The body text of NextResponse.json({ error, details }, { status })
\* (route.ts lines 14-20, 44-50, 57-63, 85-91).
EnvelopeText(b) ==
    "{\"error\":\"" \o JsonEscape(b.error) \o "\",\"details\":\""
        \o JsonEscape(b.details) \o "\"}"

\* agent-chat.tsx lines 10-15: the `error` useChat hands to the component.
\* useChat rejects a response that is not 2xx with an Error whose message is
\* the text of the response body; otherwise there is no error.
UseChatError(resp) ==
    IF resp.kind = "json" /\ resp.status >= 400
    THEN [set |-> TRUE, message |-> EnvelopeText(resp.body)]
    ELSE [set |-> FALSE, message |-> ""]

\* agent-chat.tsx lines 107-111: `{error && (<div><strong>Error:</strong>
\* {error.message}</div>)}`; nothing is rendered without an error.
ErrorBlock(error) ==
    IF error.set THEN [rendered |-> TRUE, text |-> error.message]
    ELSE [rendered |-> FALSE, text |-> ""]

\* C17: when /api/chat answered with a non-2xx JSON error envelope, the Chat
\* UI renders its error block (which it does not render while there is no
\* response), and the text it shows is the envelope's `details` string.
C17_UiShowsDetails ==
    \A r \in Requests :
        /\ (OnChat(r) /\ response[r] = NoResponse)
               => ~ErrorBlock(UseChatError(response[r])).rendered
        /\ (OnChat(r) /\ IsErrorEnvelope(response[r])) =>
               /\ ErrorBlock(UseChatError(response[r])).rendered
               /\ ErrorBlock(UseChatError(response[r])).text = response[r].body.details

\* ------------------------------------------------------------ one request
\* One request on its own, through every step of either endpoint.
NextOne ==
    \E r \in {"r1"} :
        \/ Receive(r)
        \/ ChatPOST(r)
        \/ ProviderChunk(r)
        \/ ProviderDone(r)
        \/ OnFinish(r)
        \/ ProviderError(r)
        \/ WorkflowPOST(r)
        \/ GenerateChunk(r)
        \/ ConsumeChunk(r)
        \/ GenerateDone(r)
        \/ GenerateError(r)
        \/ GenerateReturn(r)
        \/ LogMetrics(r)
        \/ WorkflowReturn(r)

SpecOne == Init /\ [][NextOne]_vars

\* ------------------------------------------------- workflow: the 200 answer
\* C21: whenever the workflow route has answered 200, the provider had
\* completed and metadata.finishReason and metadata.usage are what the
\* provider reported; a request whose provider call failed was answered with
\* the 500 error envelope.
C21_OkOnlyAfterCompletion ==
    \A r \in Requests :
        (OnWorkflow(r) /\ prompt[r] # << >>) =>
            /\ response[r].status = 200 =>
                   /\ provider[r] = "done"
                   /\ response[r].body.metadata.finishReason = finish[r].finishReason
                   /\ response[r].body.metadata.usage = finish[r].usage
            /\ (provider[r] = "error" /\ Terminal(r)) =>
                   /\ response[r].status = 500
                   /\ IsErrorEnvelope(response[r])

\* ------------------------------------------------------ workflow: logMetrics
IsMetrics(entry) == entry.tag = "[Workflow] Response generated:"

Metrics(r) == SelectSeq(console[r], IsMetrics)

\* C22: in a workflow run logMetrics has run exactly once when the workflow
\* has returned, not before generateResponse returned, and never twice; the
\* textLength it logged is the length of generateResponse's text and of the
\* `response` text sent to the caller; a run that ended in the catch has no
\* such record.
C22_LogMetricsOnce ==
    \A r \in Requests :
        OnWorkflow(r) =>
            /\ Len(Metrics(r)) <= 1
            /\ Len(Metrics(r)) = 1 <=> pc[r] \in {"Logged", "Done"}
            /\ Metrics(r) # << >> =>
                   /\ result[r].returned
                   /\ Metrics(r)[1].data.textLength = Len(result[r].text)
            /\ pc[r] = "Logged" => response[r] = NoResponse
            /\ pc[r] = "Done" =>
                   Metrics(r)[1].data.textLength = Len(response[r].body.response)
            /\ pc[r] = "Failed" => (Metrics(r) = << >> /\ ~result[r].returned)

\* A workflow run that returned "Hello" to the caller and logged 5.
C22_Witness ==
    \E r \in Requests :
        /\ OnWorkflow(r)
        /\ pc[r] = "Done"
        /\ response[r].body.response = "Hello"
        /\ Len(Metrics(r)) = 1
        /\ Metrics(r)[1].data.textLength = 5

\* -------------------------------------------------- the messages handed on
\* C23: on both endpoints the message list given to the provider is the list
\* of the request body: the same elements in the same order, nothing added,
\* removed or rewritten, at the call and at every later step.
C23_MessagesUntouched ==
    \A r \in Requests :
        /\ genCalls[r] > 0 =>
               /\ body[r].kind = "object"
               /\ body[r].messages.t = "array"
               /\ prompt[r] = body[r].messages.items
        /\ genCalls[r] = 0 => prompt[r] = << >>

\* The two-message conversation of the body is with the provider, and the
\* request has run to its end.
C23_Witness ==
    \E r \in Requests :
        /\ pc[r] = "Done"
        /\ genCalls[r] = 1
        /\ body[r].messages.items = <<Hi, Reply>>
        /\ prompt[r] = <<Hi, Reply>>

\* ------------------------------------------------------------ file browser
\* No item: what `current[index]` is past the end of the array.
NoItem == [name |-> "", type |-> "none", expanded |-> FALSE, children |-> << >>]

\* The item an index path leads to.  Paths count from 0, as in the source.
RECURSIVE ItemAt(_, _)
ItemAt(items, path) ==
    IF path = << >> \/ path[1] + 1 > Len(items) THEN NoItem
    ELSE IF Len(path) = 1 THEN items[path[1] + 1]
    ELSE ItemAt(items[path[1] + 1].children, Tail(path))

\* The array `current` stands for: the top-level array, or the children of
\* the item at `at`.
ChildrenOf(items, at) == IF at = << >> THEN items ELSE ItemAt(items, at).children

\* The tree with the item at `path` given `expanded = v`: toggleFolder's
\* assignment to the object it found.
RECURSIVE WithExpanded(_, _, _)
WithExpanded(items, path, v) ==
    [i \in 1..Len(items) |->
        IF i # path[1] + 1 THEN items[i]
        ELSE IF Len(path) = 1 THEN [items[i] EXCEPT !.expanded = v]
        ELSE [items[i] EXCEPT !.children = WithExpanded(@, Tail(path), v)]]

\* toggleFolder's loop from its i-th iteration on: `at` is where `current`
\* stands, `target` the place of the item found so far (<< >> is null).  An
\* index is compared with the LAST VALUE of the path, not with its position.
RECURSIVE FindTarget(_, _, _, _, _)
FindTarget(items, path, i, at, target) ==
    IF i > Len(path) THEN target
    ELSE LET index == path[i]
             current == ChildrenOf(items, at)
         IN IF index + 1 > Len(current)
            THEN FindTarget(items, path, i + 1, at, target)
            ELSE IF index = path[Len(path)]
                 THEN FindTarget(items, path, i + 1, at, at \o <<index>>)
                 ELSE FindTarget(items, path, i + 1, at \o <<index>>, target)

\* The tree toggleFolder(path) leaves in `files`.
toggleFolder(items, path) ==
    LET target == FindTarget(items, path, 1, << >>, << >>)
    IN IF target # << >> /\ ItemAt(items, target).type = "folder"
       THEN WithExpanded(items, target, ~ItemAt(items, target).expanded)
       ELSE items

\* renderFiles: the paths of the rows on screen, each with its onClick.
RECURSIVE renderFiles(_, _)
renderFiles(fileItems, path) ==
    UNION { {path \o <<i - 1>>} \cup
            (IF /\ fileItems[i].type = "folder"
                /\ fileItems[i].expanded
             THEN renderFiles(fileItems[i].children, path \o <<i - 1>>)
             ELSE {}) : i \in 1..Len(fileItems) }

\* A click on a row of the file browser, which is on screen only while the
\* last render of Terminal had showFileBrowser set.
ClickItem(path) ==
    /\ rendered.showFileBrowser
    /\ path \in renderFiles(files, << >>)
    /\ files' = toggleFolder(files, path)
    /\ UNCHANGED << showFileBrowser, splitView, rendered, wantSplit, wantFiles,
                    commands, commandHistory, command, historyIndex >>
    /\ UNCHANGED apiVars

\* The tree with exactly the folder at `path` flipped, and unchanged when the
\* item at `path` is a file.
FlippedAt(items, path) ==
    IF ItemAt(items, path).type = "folder"
    THEN WithExpanded(items, path, ~ItemAt(items, path).expanded)
    ELSE items

\* C24: toggleFolder(path) flips `expanded` of exactly the folder at that
\* index path and leaves every other folder as it was; on the path of a file
\* it changes nothing.  Stated for every row that is on screen.
C24_TogglesFolderAtPath ==
    \A path \in renderFiles(files, << >>) :
        toggleFolder(files, path) = FlippedAt(files, path)

\* ---------------------------------------------------------------- terminal
\* String.prototype.startsWith, substring(n) and trim.
StartsWith(s, prefix) ==
    Len(s) >= Len(prefix) /\ SubSeq(s, 1, Len(prefix)) = prefix

Substring(s, n) == SubSeq(s, n + 1, Len(s))

RECURSIVE Trim(_)
Trim(s) ==
    IF s = "" THEN ""
    ELSE IF SubSeq(s, 1, 1) = " " THEN Trim(SubSeq(s, 2, Len(s)))
    ELSE IF SubSeq(s, Len(s), Len(s)) = " " THEN Trim(SubSeq(s, 1, Len(s) - 1))
    ELSE s

\* The branch of addCommand's if-chain a command takes, first match first.
Branch(c) ==
    IF StartsWith(c, "ls") THEN "ls"
    ELSE IF StartsWith(c, "cd") THEN "cd"
    ELSE IF StartsWith(c, "echo") THEN "echo"
    ELSE IF StartsWith(c, "cat") THEN "cat"
    ELSE IF StartsWith(c, "git") THEN "git"
    ELSE IF StartsWith(c, "npm") THEN "npm"
    ELSE IF c = "help" THEN "help"
    ELSE IF c = "clear" THEN "clear"
    ELSE IF c = "theme" THEN "theme"
    ELSE IF c = "split" THEN "split"
    ELSE IF c = "files" THEN "files"
    ELSE IF c = "shortcuts" THEN "shortcuts"
    ELSE IF StartsWith(c, "search") THEN "search"
    ELSE "unknown"

\* `output` of a command; `split` is the splitView addCommand was closed over.
\* (The backquotes around "npm fund" in the source's text are left out.)
Output(c, split) ==
    CASE Branch(c) = "ls" ->
           "Documents  Downloads  Pictures  Music  Videos  Projects  .git  .config  package.json"
      [] Branch(c) = "cd" -> ""
      [] Branch(c) = "echo" -> Substring(c, 5)
      [] Branch(c) = "cat" ->
           "File contents would appear here\nWith multiple lines\nAnd proper formatting\n# This is a heading\n\nfunction example() {\n  console.log('Hello world');\n}"
      [] Branch(c) = "git" ->
           IF Contains(c, "status")
           THEN "On branch main\nYour branch is up to date with 'origin/main'.\n\nnothing to commit, working tree clean"
           ELSE IF Contains(c, "log")
           THEN "commit a1b2c3d4e5f6g7h8i9j0k1l2m3n4o5p6q7r8s9t0\nAuthor: Developer <dev@example.com>\nDate:   Mon May 4 11:53:09 2025 -0700\n\n    Initial commit"
           ELSE "git command executed"
      [] Branch(c) = "npm" ->
           IF Contains(c, "install")
           THEN "added 1256 packages, and audited 1257 packages in 3s\n\n133 packages are looking for funding\n  run npm fund for details\n\nfound 0 vulnerabilities"
           ELSE "npm command executed successfully"
      [] Branch(c) = "help" ->
           "Available commands: ls, cd, echo, cat, git, npm, clear, help, theme, split, files, shortcuts, search"
      [] Branch(c) = "theme" -> "Opening theme selector..."
      [] Branch(c) = "split" ->
           IF split THEN "Split view disabled" ELSE "Split view enabled"
      [] Branch(c) = "files" -> "Opening file browser..."
      [] Branch(c) = "shortcuts" -> "Opening keyboard shortcuts..."
      [] Branch(c) = "search" ->
           IF Trim(Substring(c, 7)) # ""
           THEN "Searching for \"" \o Trim(Substring(c, 7)) \o "\" in command history..."
           ELSE "Usage: search <term>"
      [] OTHER -> "Command not found: " \o c

Status(c) ==
    IF Branch(c) = "search" /\ Trim(Substring(c, 7)) = "" THEN "warning"
    ELSE IF Branch(c) = "unknown" THEN "error"
    ELSE "success"

\* `newCommand`, without its id, timestamp and inlinePreview.
NewCommand(c, split) ==
    [command |-> c, output |-> Output(c, split), status |-> Status(c)]

\* addCommand that keeps `clear` out of the history.
addCommandClearUnrecorded(c) ==
    /\ commandHistory' = IF Branch(c) = "clear" THEN commandHistory
                         ELSE Append(commandHistory, c)
    /\ commands' = IF Branch(c) = "clear" THEN << >>
                   ELSE Append(commands, NewCommand(c, rendered.splitView))
    /\ splitView' = IF Branch(c) = "split" THEN ~rendered.splitView ELSE splitView
    /\ wantSplit' = IF Branch(c) = "split" THEN ~wantSplit ELSE wantSplit
    /\ showFileBrowser' = IF Branch(c) = "files" THEN TRUE ELSE showFileBrowser
    /\ wantFiles' = IF Branch(c) = "files" THEN TRUE ELSE wantFiles

\* addCommand(c).  The two lists are set by functional updates, from the
\* lists as they are; the flag is set from the splitView of the render the
\* function was made in.
addCommand(c) ==
    /\ commandHistory' = Append(commandHistory, c)
    /\ commands' = IF Branch(c) = "clear" THEN << >>
                   ELSE Append(commands, NewCommand(c, rendered.splitView))
    /\ splitView' = IF Branch(c) = "split" THEN ~rendered.splitView ELSE splitView
    /\ wantSplit' = IF Branch(c) = "split" THEN ~wantSplit ELSE wantSplit
    /\ showFileBrowser' = IF Branch(c) = "files" THEN TRUE ELSE showFileBrowser
    /\ wantFiles' = IF Branch(c) = "files" THEN TRUE ELSE wantFiles

\* The commands CommandSuggestions offers.
suggestions ==
    { "git status", "npm install", "ls -la", "docker ps", "theme", "split",
      "files", "shortcuts", "clear", "search" }

\* A click on a suggestion: onSelect={addCommand}.
SelectSuggestion(c) ==
    /\ Len(commandHistory) < MaxCommands
    /\ addCommand(c)
    /\ UNCHANGED << files, rendered, command, historyIndex >>
    /\ UNCHANGED apiVars

\* handleKeyDown with Ctrl or Cmd held and the key "\".
CtrlBackslash ==
    /\ splitView' = ~rendered.splitView
    /\ wantSplit' = ~wantSplit
    /\ UNCHANGED << files, showFileBrowser, rendered, wantFiles, commands,
                    commandHistory, command, historyIndex >>
    /\ UNCHANGED apiVars

\* handleKeyDown with Ctrl or Cmd held and the key "b".
CtrlB ==
    /\ showFileBrowser' = ~rendered.showFileBrowser
    /\ wantFiles' = ~wantFiles
    /\ UNCHANGED << files, splitView, rendered, wantSplit, commands,
                    commandHistory, command, historyIndex >>
    /\ UNCHANGED apiVars

\* The sidebar's split view button: onSplitViewToggle.
SplitViewToggle ==
    /\ splitView' = ~rendered.splitView
    /\ wantSplit' = ~wantSplit
    /\ UNCHANGED << files, showFileBrowser, rendered, wantFiles, commands,
                    commandHistory, command, historyIndex >>
    /\ UNCHANGED apiVars

\* The sidebar's file browser button: onFileBrowserToggle.
FileBrowserToggle ==
    /\ showFileBrowser' = ~rendered.showFileBrowser
    /\ wantFiles' = ~wantFiles
    /\ UNCHANGED << files, splitView, rendered, wantSplit, commands,
                    commandHistory, command, historyIndex >>
    /\ UNCHANGED apiVars

\* The file browser's close button: onClose.
CloseFileBrowser ==
    /\ rendered.showFileBrowser
    /\ showFileBrowser' = FALSE
    /\ wantFiles' = FALSE
    /\ UNCHANGED << files, splitView, rendered, wantSplit, commands,
                    commandHistory, command, historyIndex >>
    /\ UNCHANGED apiVars

\* Terminal renders again: its handlers now close over the flags as they
\* are.  A FileBrowser that is no longer shown is unmounted, its state gone;
\* and where the render swaps the single TerminalContent for the SplitPane or
\* back, the CommandInput on screen is a new one.
Render ==
    /\ rendered # Closure
    /\ rendered' = Closure
    /\ files' = IF showFileBrowser THEN files ELSE InitialFiles
    /\ command' = IF splitView # rendered.splitView THEN "" ELSE command
    /\ historyIndex' = IF splitView # rendered.splitView THEN -1 ELSE historyIndex
    /\ UNCHANGED << showFileBrowser, splitView, wantSplit, wantFiles, commands,
                    commandHistory >>
    /\ UNCHANGED apiVars

\* The panel is looked at against one deployment: nothing in it reads the
\* server's environment.
InitUi ==
    /\ Init
    /\ env = [VERCEL_ENV |-> "production", ANTHROPIC_API_KEY |-> "sk-ant-key",
              NODE_ENV |-> "production"]

\* The file browser and the flags, with nothing said of when React renders
\* between two events.
NextFiles ==
    \/ \E path \in renderFiles(files, << >>) : ClickItem(path)
    \/ CtrlBackslash
    \/ CtrlB
    \/ SplitViewToggle
    \/ FileBrowserToggle
    \/ CloseFileBrowser
    \/ Render

SpecFiles == InitUi /\ [][NextFiles]_vars

\* The terminal and the flags, likewise.
NextUi ==
    \/ \E c \in suggestions : SelectSuggestion(c)
    \/ CtrlBackslash
    \/ CtrlB
    \/ SplitViewToggle
    \/ FileBrowserToggle
    \/ CloseFileBrowser
    \/ Render

SpecUi == InitUi /\ [][NextUi]_vars

\* ----------------------------------------------------------- command input
\* The handlers of the input are taken on a component that has rendered since
\* the last change of the flags (rendered = Closure): React renders after an
\* input event before the next one is handled.

\* What the user has in the input field after typing.
Typed == { "", " ", " ls ", "nope" }

\* onChange: setCommand(e.target.value).
Type(c) ==
    /\ rendered = Closure
    /\ c # command
    /\ command' = c
    /\ UNCHANGED << files, showFileBrowser, splitView, rendered, wantSplit,
                    wantFiles, commands, commandHistory, historyIndex >>
    /\ UNCHANGED apiVars

\* handleKeyDown, Enter with a non-blank input: onSubmit is addCommand.
Enter ==
    /\ rendered = Closure
    /\ Trim(command) # ""
    /\ Len(commandHistory) < MaxCommands
    /\ addCommand(Trim(command))
    /\ command' = ""
    /\ historyIndex' = -1
    /\ UNCHANGED << files, rendered >>
    /\ UNCHANGED apiVars

\* commandHistory[i] of the source, "" where the array has no such element.
Recalled(i) ==
    IF i >= 0 /\ i < Len(commandHistory) THEN commandHistory[i + 1] ELSE ""

\* ArrowUp that stops one step too late.
ArrowUpPastOldest ==
    /\ rendered = Closure
    /\ commandHistory # << >>
    /\ LET newIndex == IF historyIndex < Len(commandHistory)
                       THEN historyIndex + 1 ELSE historyIndex
       IN /\ historyIndex' = newIndex
          /\ command' = Recalled(Len(commandHistory) - 1 - newIndex)
    /\ UNCHANGED << files, showFileBrowser, splitView, rendered, wantSplit,
                    wantFiles, commands, commandHistory >>
    /\ UNCHANGED apiVars

\* handleKeyDown, ArrowUp.  With an empty history the key does nothing.
ArrowUp ==
    /\ rendered = Closure
    /\ commandHistory # << >>
    /\ LET newIndex == IF historyIndex < Len(commandHistory) - 1
                       THEN historyIndex + 1 ELSE historyIndex
       IN /\ historyIndex' = newIndex
          /\ command' = Recalled(Len(commandHistory) - 1 - newIndex)
    /\ UNCHANGED << files, showFileBrowser, splitView, rendered, wantSplit,
                    wantFiles, commands, commandHistory >>
    /\ UNCHANGED apiVars

\* handleKeyDown, ArrowDown.  At index -1 the key does nothing.
ArrowDown ==
    /\ rendered = Closure
    /\ historyIndex >= 0
    /\ IF historyIndex > 0
       THEN /\ historyIndex' = historyIndex - 1
            /\ command' = Recalled(Len(commandHistory) - 1 - (historyIndex - 1))
       ELSE /\ historyIndex' = -1
            /\ command' = ""
    /\ UNCHANGED << files, showFileBrowser, splitView, rendered, wantSplit,
                    wantFiles, commands, commandHistory >>
    /\ UNCHANGED apiVars

\* handleKeyDown, Tab: the completion by first letter.
Tab ==
    /\ rendered = Closure
    /\ \/ StartsWith(command, "g") /\ command' = "git "
       \/ ~StartsWith(command, "g") /\ StartsWith(command, "n") /\ command' = "npm "
       \/ /\ ~StartsWith(command, "g")
          /\ ~StartsWith(command, "n")
          /\ StartsWith(command, "c")
          /\ command' = "cd "
    /\ UNCHANGED << files, showFileBrowser, splitView, rendered, wantSplit,
                    wantFiles, commands, commandHistory, historyIndex >>
    /\ UNCHANGED apiVars

\* The command input with the terminal behind it.
NextInput ==
    \/ \E c \in Typed : Type(c)
    \/ Enter
    \/ ArrowUp
    \/ ArrowDown
    \/ Tab
    \/ \E c \in suggestions : SelectSuggestion(c)
    \/ CtrlBackslash
    \/ Render

SpecInput == InitUi /\ [][NextInput]_vars

\* C25: historyIndex stays within -1 .. commandHistory.length - 1 through
\* every step (key, submission, history appended from elsewhere); after an
\* arrow key that leaves it >= 0 the input shows
\* commandHistory[length - 1 - historyIndex]; ArrowUp moves one entry back
\* and stays at the oldest; ArrowDown moves one entry forward and from index
\* 0 returns to -1 with an empty input; Enter with a non-blank input submits
\* the trimmed text and resets the index to -1 with the input cleared.
C25_HistoryNavigation ==
    [][ /\ historyIndex' \in -1..(Len(commandHistory') - 1)
        /\ (ArrowUp \/ ArrowDown) =>
              /\ commandHistory' = commandHistory
              /\ historyIndex' >= 0 =>
                    command' = commandHistory[Len(commandHistory) - historyIndex']
        /\ ArrowUp =>
              historyIndex' =
                  IF historyIndex = Len(commandHistory) - 1
                  THEN historyIndex ELSE historyIndex + 1
        /\ ArrowDown =>
              /\ historyIndex' = historyIndex - 1
              /\ historyIndex = 0 => command' = ""
        /\ Enter =>
              /\ commandHistory' = Append(commandHistory, Trim(command))
              /\ Trim(command) # ""
              /\ historyIndex' = -1
              /\ command' = ""
      ]_vars

\* Two commands are in the history, one of them typed with blanks around it,
\* and ArrowUp has gone back to the older one.
C25_Witness ==
    /\ Len(commandHistory) = 2
    /\ "ls" \in {commandHistory[1], commandHistory[2]}
    /\ historyIndex = 1
    /\ command = commandHistory[1]

\* ------------------------------------------------- terminal: the two lists
\* The prefixes help's text and the if-chain know.
KnownPrefixes ==
    { "ls", "cd", "echo", "cat", "git", "npm", "help", "clear", "theme", "split",
      "files", "shortcuts", "search" }

MatchesNoKnownPrefix(c) == \A prefix \in KnownPrefixes : ~StartsWith(c, prefix)

\* The step is the submission of `c`: from the input or from a suggestion.
Submits(c) == (Enter /\ c = Trim(command)) \/ SelectSuggestion(c)

\* C26: every submitted command, `clear` too, appends exactly one entry to
\* commandHistory, which no other step changes; a command other than `clear`
\* appends exactly one block, its own, to the end of `commands` and leaves
\* the earlier blocks as they were; `clear` empties `commands`; no other step
\* changes `commands`; and a command that matches no known prefix gets
\* status error and the output "Command not found: <command>".
C26_OneEntryOneBlock ==
    [][ /\ \A c \in suggestions \cup {Trim(command)} :
              Submits(c) =>
                 /\ commandHistory' = Append(commandHistory, c)
                 /\ c = "clear" => commands' = << >>
                 /\ c # "clear" =>
                       /\ Len(commands') = Len(commands) + 1
                       /\ SubSeq(commands', 1, Len(commands)) = commands
                       /\ commands'[Len(commands')].command = c
                 /\ MatchesNoKnownPrefix(c) =>
                       /\ commands'[Len(commands')].status = "error"
                       /\ commands'[Len(commands')].output = "Command not found: " \o c
        /\ commandHistory' = commandHistory => commands' = commands
        /\ commandHistory' # commandHistory =>
              /\ Len(commandHistory') = Len(commandHistory) + 1
              /\ SubSeq(commandHistory', 1, Len(commandHistory)) = commandHistory
      ]_vars

\* `clear` was submitted and then a command nothing knows: both are in the
\* history, and the one block is the error block of the second.
C26_Witness ==
    /\ commandHistory = << "clear", "docker ps" >>
    /\ Len(commands) = 1
    /\ commands[1].status = "error"
    /\ commands[1].output = "Command not found: docker ps"

\* ------------------------------------------------------ terminal: the flags
\* C27: splitView is a strict toggle: every `split` command, every Ctrl/Cmd+\
\* and every click on the sidebar's split button flips it once, so it differs
\* from its initial value exactly after an odd number of them, also when two
\* of them are handled before Terminal renders again; and the same for
\* showFileBrowser under Ctrl/Cmd+B and the sidebar's button.
C27_StrictToggles ==
    /\ splitView = wantSplit
    /\ showFileBrowser = wantFiles

====
